---- MODULE Spec2Model ----
(***************************************************************************)
(* Model of tutorials/GC_algorithm_API.py: the capped exponential back-off *)
(* iterator ThrottledRetries and the job driver GrandChallengeAlgorithm    *)
(* (construction, run() and _download_results()).                          *)
(*                                                                         *)
(* The remote client (gcapi.Client), the clock (time.sleep) and the file   *)
(* system (pathlib.Path) are the environment: every remote call picks its  *)
(* result nondeterministically from the results the code distinguishes,    *)
(* sleeps are recorded instead of waited for, and the file system is a map *)
(* from path to content.                                                   *)
(***************************************************************************)
EXTENDS Integers, Sequences, FiniteSets, TLC

VARIABLES
    pc,          \* position of the single thread of control
    retries,     \* the ThrottledRetries object: [attempts, interval]
    gen,         \* the live generator of retries.__iter__: [n, slept]
    yielded,     \* indices the live generator has yielded so far
    waits,       \* sleeps the live generator has made so far (fractions)
    polls,       \* status fetches the loop over the live generator has made
    driver,      \* fields of the GrandChallengeAlgorithm instance
    lookups,     \* calls of client(path="algorithms") made by __init__
    algorithm_details,  \* what the lookup answered (__init__'s local)
    runs,        \* calls of run() made so far
    filename,    \* run()'s output_file argument
    image_uuid,  \* run()'s local image_uuid
    details,     \* what the last poll of the live loop fetched
    trail,       \* results of the first polls of the import loop
    outputs,     \* _download_results' outputs argument
    oi,          \* index of the output the outer loop of the download is at
    fj,          \* index of the file the inner loop of the download is at
    fs,          \* file system: [dir, files] of the destination directory
    exc,         \* how the last call ended: Running, Returned, or the exception
    calls        \* what the current run() has done so far, per kind of step

vars == <<pc, retries, gen, yielded, waits, polls, driver, lookups, algorithm_details,
          runs, filename,
          image_uuid, details, trail, outputs, oi, fj, fs, exc, calls>>

-----------------------------------------------------------------------------
(* Bounds of the model *)

\* largest attempts value of a free-standing ThrottledRetries
MaxAttempts == 9
\* largest small interval value of a free-standing ThrottledRetries
MaxInterval == 16
\* number of run() calls made on one driver
MaxRuns == 2
\* longest outputs list a Succeeded job carries
MaxOutputs == 2
\* number of import polls whose results the trail records
TrailLen == 3

(* Program constants *)

\* cap of one back-off sleep, in seconds (min(..., 300))
Cap == 300
\* ThrottledRetries(attempts=25, ...)
PollAttempts == 25
\* ThrottledRetries(..., interval=15)
PollInterval == 15
\* time.sleep(30) after the upload
ImportHeadstart == 30
\* self.headstart = 30, the default
DefaultHeadstart == 30

\* a local that holds nothing yet
None == "None"
\* no destination path yet
NoPath == <<>>
\* a call still running, and a call that returned normally
Running == [type |-> "Running", msg |-> ""]
Returned == [type |-> "Returned", msg |-> ""]
\* the fields before __init__ has set them
NoRetries == [attempts |-> 0, interval |-> 0]
NoDriver == [algorithm_uuid |-> None, headstart |-> 0]
\* __init__'s local before the lookup has answered
NoAnswer == [results |-> None, pk |-> None, average_duration |-> [null |-> TRUE, num |-> 0]]
\* the trail of a loop that has made more polls than the trail records
Long == <<"long">>
\* no poll made yet
NoDetails == [status |-> None]

-----------------------------------------------------------------------------
(* Exceptions a call ends with *)

InvalidName == [type |-> "ValueError", msg |-> "Invalid algorithm name"]
NotStarted == [type |-> "RuntimeError", msg |-> "could not be started"]
NotImported == [type |-> "RuntimeError", msg |-> "Uploaded image could not be imported"]
AlgFailed == [type |-> "RuntimeError", msg |-> "failed"]
Timeout == [type |-> "TimeoutError", msg |-> ""]
BadSuffix == [type |-> "ValueError", msg |-> "Output file needs to have .mha extension"]
\* an I/O error of the client that no handler of run() catches
IOErr(where) == [type |-> "IOError", msg |-> where]

-----------------------------------------------------------------------------
(* Fractions: a back-off sleep is interval * 1.5 ** n = interval * 3^n / 2^n *)

RECURSIVE GCD(_, _)
GCD(a, b) == IF b = 0 THEN a ELSE GCD(b, a % b)

Frac(num, den) ==
    IF num = 0 THEN [num |-> 0, den |-> 1]
    ELSE LET g == GCD(num, den) IN [num |-> num \div g, den |-> den \div g]

FracGeq(f, k) == f.num >= k * f.den

\* one more factor 1.5. The product is carried exactly; once it has passed the
\* cap it is no longer multiplied (it only grows, and min() discards it).
Grow(p) == IF FracGeq(p, Cap) THEN p ELSE Frac(p.num * 3, p.den * 2)

\* interval * 1.5 ** n; the singleton set makes the shorter product a value
\* that is computed once
RECURSIVE Backoff(_, _)
Backoff(interval, n) ==
    IF n = 0 THEN Frac(interval, 1)
    ELSE CHOOSE q \in {Grow(p) : p \in {Backoff(interval, n - 1)}} : TRUE

\* mutant of Delay: the cap is forgotten
DelayNoCap(interval, n) == Backoff(interval, n)

\* min(self.interval * 1.5 ** n, 300)
Delay(interval, n) ==
    LET b == Backoff(interval, n) IN
    IF FracGeq(b, Cap) THEN Frac(Cap, 1) ELSE b

-----------------------------------------------------------------------------
(* ThrottledRetries.__iter__: the generator *)

\* a generator that has not been advanced yet
NewGen == [n |-> 0, slept |-> FALSE]

\* the for statement asks the suspended generator for the next index
Resume(g) == [n |-> g.n + 1, slept |-> FALSE]

\* mutant of GenExhausted: the generator never ends (`while True`)
GenNeverExhausted == FALSE

\* mutant of GenExhausted: the last attempt is never made
GenExhaustedEarly == gen.n >= retries.attempts - 1

\* range(self.attempts) is exhausted: the generator returns (StopIteration)
GenExhausted == gen.n >= retries.attempts

\* `if n > 0: time.sleep(...)`
GenSleep(loop) ==
    /\ pc = loop
    /\ ~GenExhausted
    /\ gen.n > 0
    /\ ~gen.slept
    /\ waits' = Append(waits, Delay(retries.interval, gen.n))
    /\ gen' = [gen EXCEPT !.slept = TRUE]
    /\ UNCHANGED <<pc, yielded>>

\* `yield n`: control passes to the body of the caller's for loop
GenYield(loop, body) ==
    /\ pc = loop
    /\ ~GenExhausted
    /\ gen.n = 0 \/ gen.slept
    /\ yielded' = Append(yielded, gen.n)
    /\ pc' = body
    /\ UNCHANGED <<gen, waits>>

-----------------------------------------------------------------------------
(* A free-standing iteration, `for n in ThrottledRetries(N, I): pass` *)

Intervals == (0 .. MaxInterval) \cup {Cap, Cap + 1}

\* nothing done yet; preSlept and hsSlept are the lengths of the sleep after
\* the upload and of the headstart sleep, once made; dlErrors counts the
\* fetches of the download that raised
NoCalls ==
    [uploads |-> 0, prewaits |-> 0, preSlept |-> 0, headstarts |-> 0, hsSlept |-> 0,
     downloads |-> 0, imgFetches |-> 0, fileFetches |-> 0, dlErrors |-> 0,
     mkdirs |-> 0, opens |-> 0, writes |-> 0]

\* destination file names, as the characters of the path's last component
ResultMha == <<"r", ".", "m", "h", "a">>
ResultPng == <<"r", ".", "p", "n", "g">>
Paths == {ResultMha, ResultPng}

\* the destination directory does not exist and holds no file
EmptyFs == [dir |-> FALSE, files |-> [p \in Paths |-> "absent"]]

\* the destination directory exists and the .mha destination holds an old mask
UsedFs == [dir |-> TRUE,
           files |-> [p \in Paths |-> IF p = ResultMha THEN "old" ELSE "absent"]]

DriverIdle ==
    /\ polls = 0
    /\ driver = NoDriver
    /\ lookups = 0
    /\ algorithm_details = NoAnswer
    /\ runs = 0
    /\ filename = NoPath
    /\ image_uuid = None
    /\ details = NoDetails
    /\ trail = <<>>
    /\ outputs = <<>>
    /\ oi = 0
    /\ fj = 0
    /\ exc = Running
    /\ calls = NoCalls

InitRetries ==
    /\ pc = "iter_loop"
    /\ retries \in [attempts : 0 .. MaxAttempts, interval : Intervals]
    /\ gen = NewGen
    /\ yielded = <<>>
    /\ waits = <<>>
    /\ fs = EmptyFs
    /\ DriverIdle

driverVars == <<retries, polls, driver, lookups, algorithm_details,
                runs, filename, image_uuid, details,
                trail, outputs, oi, fj, fs, exc, calls>>

IterSleep == GenSleep("iter_loop") /\ UNCHANGED driverVars

IterYield == GenYield("iter_loop", "iter_body") /\ UNCHANGED driverVars

\* the body of the loop ends and the for statement resumes the generator
IterBody ==
    /\ pc = "iter_body"
    /\ gen' = Resume(gen)
    /\ pc' = "iter_loop"
    /\ UNCHANGED <<yielded, waits>>
    /\ UNCHANGED driverVars

\* the generator returns: the for loop ends, nothing is raised
IterStop ==
    /\ pc = "iter_loop"
    /\ GenExhausted
    /\ pc' = "iter_end"
    /\ UNCHANGED <<gen, yielded, waits>>
    /\ UNCHANGED driverVars

NextRetries == IterSleep \/ IterYield \/ IterBody \/ IterStop

SpecRetries == InitRetries /\ [][NextRetries]_vars

-----------------------------------------------------------------------------
(* GrandChallengeAlgorithm.__init__ *)

\* average durations the algorithm record may carry: null, or a number
Null == [null |-> TRUE, num |-> 0]
Num(k) == [null |-> FALSE, num |-> k]
Durations == {Null, Num(0), Num(10), Num(100)}

\* what client(path="algorithms", params={"slug": ...}) answers
\* "IOError": the call raises; "NoResults": an empty result list; "NoDuration":
\* a record without the key "average_duration"; "Found": a full record
LookupResults ==
    {[results |-> k, pk |-> "alg", average_duration |-> d] :
        k \in {"IOError", "NoResults", "NoDuration"}, d \in {Null}}
        \cup {[results |-> "Found", pk |-> "alg", average_duration |-> d] :
                d \in Durations}

\* algorithm_details["average_duration"] of a record without that key
NoDurationKey == [type |-> "KeyError", msg |-> "average_duration"]

\* mutant of Headstart: the default is taken only for a null average
HeadstartOfZero(average_duration) ==
    IF ~average_duration.null
    THEN (average_duration.num * 3) \div 4
    ELSE DefaultHeadstart

\* `int(average_duration * 0.75)` if average_duration is truthy, else 30
Headstart(average_duration) ==
    IF ~average_duration.null /\ average_duration.num # 0
    THEN (average_duration.num * 3) \div 4
    ELSE DefaultHeadstart

Init ==
    /\ pc = "new"
    /\ retries = NoRetries
    /\ gen = NewGen
    /\ yielded = <<>>
    /\ waits = <<>>
    /\ fs \in {EmptyFs, UsedFs}
    /\ DriverIdle

runVars == <<filename, image_uuid, details, trail, outputs, oi, fj, calls>>

\* mutant of ConstructFails: the error is swallowed and the lookup made again
ConstructRetries(e) ==
    /\ exc' = exc
    /\ pc' = "new"

\* __init__ raises e: the caller gets no driver
ConstructFails(e) ==
    /\ exc' = e
    /\ pc' = "no_driver"

Construct ==
    /\ pc = "new"
    /\ \E r \in LookupResults :
        /\ lookups' = lookups + 1
        /\ algorithm_details' = r
        /\ retries' = [attempts |-> PollAttempts, interval |-> PollInterval]
        /\ IF r.results = "IOError"
           THEN /\ ConstructFails(IOErr("lookup"))
                /\ UNCHANGED driver
           ELSE IF r.results = "NoResults"
           THEN /\ ConstructFails(InvalidName)
                /\ UNCHANGED driver
           ELSE IF r.results = "NoDuration"
           THEN /\ ConstructFails(NoDurationKey)
                /\ driver' = [driver EXCEPT !.algorithm_uuid = r.pk]
           ELSE /\ driver' = [algorithm_uuid |-> r.pk,
                              headstart |-> Headstart(r.average_duration)]
                /\ exc' = Returned
                /\ pc' = "idle"
    /\ UNCHANGED <<gen, yielded, waits, polls, runs, fs>>
    /\ UNCHANGED runVars

-----------------------------------------------------------------------------
(* GrandChallengeAlgorithm.run *)

Bump(field) == [calls EXCEPT ![field] = @ + 1]

\* a fetch of the download step: one more call, and one more error if it raised
Fetched(field, ok) ==
    [calls EXCEPT ![field] = @ + 1, !.dlErrors = IF ok THEN @ ELSE @ + 1]

\* run() ends by raising e (or by returning: e = Returned)
EndRun(e) ==
    /\ exc' = e
    /\ pc' = "idle"
    /\ UNCHANGED gen

\* mutant of NextAttempt: the poll is not tried again, the loop gives up
GiveUp(loop) ==
    /\ exc' = Timeout
    /\ pc' = "idle"
    /\ gen' = gen

\* `continue`, or the end of the loop body: back to the for statement
NextAttempt(loop) ==
    /\ gen' = Resume(gen)
    /\ pc' = loop
    /\ UNCHANGED exc

RunCall ==
    /\ pc = "idle"
    /\ runs < MaxRuns
    /\ \E f \in Paths : filename' = f
    /\ runs' = runs + 1
    /\ image_uuid' = None
    /\ details' = NoDetails
    /\ trail' = <<>>
    /\ outputs' = <<>>
    /\ oi' = 0
    /\ fj' = 0
    /\ calls' = NoCalls
    /\ exc' = Running
    /\ pc' = "upload"
    /\ gen' = NewGen
    /\ yielded' = <<>>
    /\ waits' = <<>>
    /\ polls' = 0
    /\ UNCHANGED <<retries, driver, lookups, algorithm_details, fs>>

\* session = self.client.upload_cases(...): no handler around it
Upload ==
    /\ pc = "upload"
    /\ calls' = Bump("uploads")
    /\ \E ok \in BOOLEAN :
        IF ok THEN pc' = "prewait" /\ UNCHANGED exc
        ELSE exc' = IOErr("upload") /\ pc' = "idle"
    /\ UNCHANGED <<retries, gen, yielded, waits, polls, driver, lookups, algorithm_details,
                   runs,
                   filename, image_uuid, details, trail, outputs, oi, fj, fs>>

\* mutant of FreshIteration: the retries object is its own iterator, so a
\* later loop goes on where the loop before it stopped
SharedIteration ==
    /\ gen' = Resume(gen)
    /\ UNCHANGED <<yielded, waits, polls>>

\* `for _ in self.retries`: the for statement calls __iter__, which makes a
\* new generator that has yielded nothing and slept for nothing
FreshIteration ==
    /\ gen' = NewGen
    /\ yielded' = <<>>
    /\ waits' = <<>>
    /\ polls' = 0

\* time.sleep(30), then `for _ in self.retries` calls __iter__
PreWait ==
    /\ pc = "prewait"
    /\ calls' = [calls EXCEPT !.prewaits = @ + 1, !.preSlept = ImportHeadstart]
    /\ FreshIteration
    /\ pc' = "import_loop"
    /\ UNCHANGED <<retries, driver, lookups, algorithm_details,
                   runs, filename, image_uuid,
                   details, trail, outputs, oi, fj, fs, exc>>

loopVars == <<retries, polls, driver, lookups, algorithm_details,
              runs, filename, image_uuid, details,
              trail, outputs, oi, fj, fs, exc, calls>>

ImportSleep == GenSleep("import_loop") /\ UNCHANGED loopVars

ImportYield == GenYield("import_loop", "import_poll") /\ UNCHANGED loopVars

\* mutant of ImportTimeout: the else clause does not raise, run() goes on
ImportTimeoutFallsThrough ==
    /\ pc = "import_loop"
    /\ GenExhausted
    /\ pc' = "headstart"
    /\ UNCHANGED <<retries, gen, yielded, waits, polls, driver, lookups, algorithm_details,
                   runs,
                   fs, exc>>
    /\ UNCHANGED runVars

\* the else clause of the import loop
ImportTimeout ==
    /\ pc = "import_loop"
    /\ GenExhausted
    /\ EndRun(Timeout)
    /\ UNCHANGED <<retries, yielded, waits, polls, driver, lookups, algorithm_details,
                   runs, fs>>
    /\ UNCHANGED runVars

\* mutant of Rejected: a cancelled import or job is polled again
RejectedOnlyFailed(s) == s = "Failed"

\* `status in ("Failed", "Cancelled")`
Rejected(s) == s \in {"Failed", "Cancelled"}

\* what raw_image_upload_sessions.detail(pk) answers: an I/O error, or the
\* session's status and image_set
SessionResults ==
    {[status |-> s, image_set |-> <<>>] :
        s \in {"IOError", "Queued", "Failed", "Cancelled", "Succeeded"}}
        \cup {[status |-> "Succeeded", image_set |-> <<"image-url">>]}

\* the trail of the polls made so far, while they are at most TrailLen
Trailed(r) ==
    IF trail # Long /\ Len(trail) < TrailLen THEN Append(trail, r) ELSE Long

\* mutants of ImportStep: an I/O error of the fetch is not caught; a Succeeded
\* session without image is polled again
ImportStepUncaught(r) ==
    IF r.status = "IOError" THEN "io_error"
    ELSE IF Rejected(r.status) THEN "rejected"
    ELSE IF r.status = "Succeeded"
    THEN IF r.image_set = <<>> THEN "not_imported" ELSE "resolve"
    ELSE "continue"

ImportStepRetriesEmpty(r) ==
    IF r.status = "IOError" THEN "continue"
    ELSE IF Rejected(r.status) THEN "rejected"
    ELSE IF r.status = "Succeeded"
    THEN IF r.image_set = <<>> THEN "continue" ELSE "resolve"
    ELSE "continue"

\* what the body of the import loop does with the answer r of the fetch
ImportStep(r) ==
    IF r.status = "IOError" THEN "continue"
    ELSE IF Rejected(r.status) THEN "rejected"
    ELSE IF r.status = "Succeeded"
    THEN IF r.image_set = <<>> THEN "not_imported" ELSE "resolve"
    ELSE "continue"

ImportPoll ==
    /\ pc = "import_poll"
    /\ polls' = polls + 1
    /\ \E r \in SessionResults :
        /\ details' = r
        /\ trail' = Trailed(r.status)
        /\ CASE ImportStep(r) = "continue" ->
                    NextAttempt("import_loop")
             [] ImportStep(r) = "rejected" ->
                    EndRun(NotStarted)
             [] ImportStep(r) = "not_imported" ->
                    EndRun(NotImported)
             [] ImportStep(r) = "resolve" ->
                    pc' = "import_resolve" /\ UNCHANGED <<gen, exc>>
             [] ImportStep(r) = "io_error" ->
                    EndRun(IOErr("session"))
    /\ UNCHANGED <<retries, yielded, waits, driver, lookups, algorithm_details,
                   runs, filename,
                   image_uuid, outputs, oi, fj, fs, calls>>

\* image_details = self.client(url=image_url); image_uuid = image_details["pk"]
ImportResolve ==
    /\ pc = "import_resolve"
    /\ \E ok \in BOOLEAN :
        IF ok
        THEN /\ image_uuid' = "image"
             /\ pc' = "headstart"
             /\ UNCHANGED <<gen, trail, exc>>
        ELSE /\ NextAttempt("import_loop")
             /\ trail' = IF trail = Long THEN trail
                         ELSE [trail EXCEPT ![Len(trail)] = "Unresolved"]
             /\ UNCHANGED image_uuid
    /\ UNCHANGED <<retries, yielded, waits, polls, driver, lookups, algorithm_details,
                   runs,
                   filename, details, outputs, oi, fj, fs, calls>>

\* time.sleep(self.headstart), then `for _ in self.retries` calls __iter__
HeadstartWait ==
    /\ pc = "headstart"
    /\ calls' = [calls EXCEPT !.headstarts = @ + 1, !.hsSlept = driver.headstart]
    /\ FreshIteration
    /\ details' = NoDetails
    /\ trail' = <<>>
    /\ pc' = "job_loop"
    /\ UNCHANGED <<retries, driver, lookups, algorithm_details,
                   runs, filename, image_uuid,
                   outputs, oi, fj, fs, exc>>

JobSleep == GenSleep("job_loop") /\ UNCHANGED loopVars

JobYield == GenYield("job_loop", "job_poll") /\ UNCHANGED loopVars

\* the else clause of the job loop
JobTimeout ==
    /\ pc = "job_loop"
    /\ GenExhausted
    /\ EndRun(Timeout)
    /\ UNCHANGED <<retries, yielded, waits, polls, driver, lookups, algorithm_details,
                   runs, fs>>
    /\ UNCHANGED runVars

\* the images of the outputs of a job and the files the client lists for each
Images == {"img-J", "img-M", "img-K"}

ImageFiles(img) ==
    CASE img = "img-J" -> <<[image_type |-> "JPEG", file |-> "jpeg-0"]>>
      [] img = "img-M" -> <<[image_type |-> "JPEG", file |-> "jpeg-1"],
                            [image_type |-> "MHD", file |-> "mask-1"],
                            [image_type |-> "MHD", file |-> "mask-2"]>>
      [] img = "img-K" -> <<[image_type |-> "MHD", file |-> "mask-3"]>>

\* the outputs of a job: each with an image, or with none (null)
Outs == {[image |-> i] : i \in Images \cup {None}}

OutputLists == UNION {[1 .. k -> Outs] : k \in 0 .. MaxOutputs}

\* what algorithm_jobs.page(params, limit=1)[0] gives: an I/O error, an empty
\* page (IndexError), or the job's status and outputs
JobResults ==
    {[status |-> s, outputs |-> <<>>] :
        s \in {"IOError", "Empty", "Queued", "Failed", "Cancelled"}}
        \cup {[status |-> "Succeeded", outputs |-> o] : o \in OutputLists}

\* what the body of the job loop does with the answer r of the fetch
JobStep(r) ==
    IF r.status \in {"IOError", "Empty"} THEN "continue"
    ELSE IF Rejected(r.status) THEN "rejected"
    ELSE IF r.status = "Succeeded" THEN "download"
    ELSE "continue"

JobPoll ==
    /\ pc = "job_poll"
    /\ polls' = polls + 1
    /\ \E r \in JobResults :
        /\ details' = r
        /\ CASE JobStep(r) = "continue" ->
                    /\ NextAttempt("job_loop")
                    /\ UNCHANGED <<outputs, oi, calls>>
             [] JobStep(r) = "rejected" ->
                    /\ EndRun(AlgFailed)
                    /\ UNCHANGED <<outputs, oi, calls>>
             [] JobStep(r) = "download" ->
                    /\ outputs' = r.outputs
                    /\ oi' = 1
                    /\ calls' = Bump("downloads")
                    /\ pc' = "dl_output"
                    /\ UNCHANGED <<gen, exc>>
    /\ UNCHANGED <<retries, yielded, waits, driver, lookups, algorithm_details,
                   runs, filename,
                   image_uuid, trail, fj, fs>>

-----------------------------------------------------------------------------
(* GrandChallengeAlgorithm._download_results *)

dlFixed == <<retries, yielded, waits, polls, driver, lookups, algorithm_details,
             runs, filename,
             image_uuid, details, trail, outputs>>

\* `for output in outputs`, and `if output["image"] is None: continue`
DlNextOutput ==
    /\ pc = "dl_output"
    /\ IF oi > Len(outputs)
       THEN \* the function returns, run() breaks out of the job loop and returns
            EndRun(Returned) /\ UNCHANGED oi
       ELSE IF outputs[oi].image = None
       THEN oi' = oi + 1 /\ UNCHANGED <<pc, exc, gen>>
       ELSE pc' = "dl_image" /\ UNCHANGED <<oi, exc, gen>>
    /\ UNCHANGED <<fj, fs, calls>>
    /\ UNCHANGED dlFixed

\* mutant of DlRaises: the download is called inside the try block of the job
\* loop, so that its I/O errors are absorbed like those of a poll
DlCaught(where) == NextAttempt("job_loop")

\* a fetch of the download raises: _download_results is called after the try
\* block of the job loop, so the error leaves run()
DlRaises(where) == EndRun(IOErr(where))

\* image_details = self.client(url=output["image"]): no handler around it
DlFetchImage ==
    /\ pc = "dl_image"
    /\ \E ok \in BOOLEAN :
        /\ calls' = Fetched("imgFetches", ok)
        /\ IF ok
           THEN fj' = 1 /\ pc' = "dl_file" /\ UNCHANGED <<exc, gen>>
           ELSE DlRaises("image") /\ UNCHANGED fj
    /\ UNCHANGED <<oi, fs>>
    /\ UNCHANGED dlFixed

\* the files of the image the outer loop is at
Files == ImageFiles(outputs[oi].image)

\* mutant of Skipped: no file is skipped, whatever its type
SkippedNever(file) == FALSE

\* `if file["image_type"] != "MHD": continue`
Skipped(file) == file.image_type # "MHD"

\* `for file in image_details["files"]`, and the skip of the files that are not MHD
DlNextFile ==
    /\ pc = "dl_file"
    /\ IF fj > Len(Files)
       THEN oi' = oi + 1 /\ pc' = "dl_output" /\ UNCHANGED fj
       ELSE IF Skipped(Files[fj])
       THEN fj' = fj + 1 /\ UNCHANGED <<oi, pc>>
       ELSE pc' = "dl_suffix" /\ UNCHANGED <<oi, fj>>
    /\ UNCHANGED <<fs, exc, calls, gen>>
    /\ UNCHANGED dlFixed

\* Path(filename).suffix: the last component from its last dot on, unless that
\* dot is its first or its last character
Suffix(name) ==
    LET dots == {i \in 1 .. Len(name) : name[i] = "."}
        k == IF dots = {} THEN 0 ELSE CHOOSE i \in dots : \A j \in dots : j <= i
    IN IF 1 < k /\ k < Len(name) THEN SubSeq(name, k, Len(name)) ELSE <<>>

Mha == <<".", "m", "h", "a">>

\* `if output_file.suffix != ".mha": raise ValueError(...)`
DlCheckSuffix ==
    /\ pc = "dl_suffix"
    /\ IF Suffix(filename) # Mha
       THEN EndRun(BadSuffix)
       ELSE pc' = "dl_mkdir" /\ UNCHANGED <<exc, gen>>
    /\ UNCHANGED <<oi, fj, fs, calls>>
    /\ UNCHANGED dlFixed

\* output_file.parent.mkdir(parents=True, exist_ok=True)
DlMkdir ==
    /\ pc = "dl_mkdir"
    /\ fs' = [fs EXCEPT !.dir = TRUE]
    /\ calls' = Bump("mkdirs")
    /\ pc' = "dl_open"
    /\ UNCHANGED <<oi, fj, exc, gen>>
    /\ UNCHANGED dlFixed

\* output_file.open("wb"): the file is created, or truncated
DlOpen ==
    /\ pc = "dl_open"
    /\ fs' = [fs EXCEPT !.files[filename] = "empty"]
    /\ calls' = Bump("opens")
    /\ pc' = "dl_content"
    /\ UNCHANGED <<oi, fj, exc, gen>>
    /\ UNCHANGED dlFixed

\* self.client(url=file["file"]).content, evaluated inside the with block
DlFetchContent ==
    /\ pc = "dl_content"
    /\ \E ok \in BOOLEAN :
        /\ calls' = Fetched("fileFetches", ok)
        /\ IF ok
           THEN pc' = "dl_write" /\ UNCHANGED <<exc, gen>>
           ELSE DlRaises("file")
    /\ UNCHANGED <<oi, fj, fs>>
    /\ UNCHANGED dlFixed

\* mutant of DlWrite: the return after the write is missing
DlWriteNoReturn ==
    /\ pc = "dl_write"
    /\ fs' = [fs EXCEPT !.files[filename] = Files[fj].file]
    /\ calls' = Bump("writes")
    /\ fj' = fj + 1
    /\ pc' = "dl_file"
    /\ UNCHANGED <<oi, exc, gen>>
    /\ UNCHANGED dlFixed

\* fp.write(...), the end of the with block, and `return`
DlWrite ==
    /\ pc = "dl_write"
    /\ fs' = [fs EXCEPT !.files[filename] = Files[fj].file]
    /\ calls' = Bump("writes")
    /\ EndRun(Returned)
    /\ UNCHANGED <<oi, fj>>
    /\ UNCHANGED dlFixed

-----------------------------------------------------------------------------

Next ==
    \/ Construct
    \/ RunCall
    \/ Upload
    \/ PreWait
    \/ ImportSleep
    \/ ImportYield
    \/ ImportPoll
    \/ ImportResolve
    \/ ImportTimeout
    \/ HeadstartWait
    \/ JobSleep
    \/ JobYield
    \/ JobPoll
    \/ JobTimeout
    \/ DlNextOutput
    \/ DlFetchImage
    \/ DlNextFile
    \/ DlCheckSuffix
    \/ DlMkdir
    \/ DlOpen
    \/ DlFetchContent
    \/ DlWrite

Spec == Init /\ [][Next]_vars

\* the steps of a run() in progress: all of Next but the caller's two calls
RunStep ==
    \/ Upload \/ PreWait
    \/ ImportSleep \/ ImportYield \/ ImportPoll \/ ImportResolve \/ ImportTimeout
    \/ HeadstartWait
    \/ JobSleep \/ JobYield \/ JobPoll \/ JobTimeout
    \/ DlNextOutput \/ DlFetchImage \/ DlNextFile \/ DlCheckSuffix
    \/ DlMkdir \/ DlOpen \/ DlFetchContent \/ DlWrite

\* every remote call, sleep and file operation of a run() in progress returns
\* (or raises), so that the single thread of control makes its next step
FairSpec == Spec /\ WF_vars(RunStep)

-----------------------------------------------------------------------------
(* Properties of ThrottledRetries, checked under SpecRetries *)

\* min(I * 1.5^k, 300) as a fraction, from the closed form I * 3^k / 2^k
IsCappedBackoff(w, I, k) ==
    IF I * 3^k >= Cap * 2^k
    THEN w.num = Cap /\ w.den = 1
    ELSE w.num * 2^k = w.den * I * 3^k

\* C1: a full iteration of ThrottledRetries(N, I) yields exactly the indices
\* 0, 1, ..., N-1 in increasing order and then ends without raising; no wait
\* precedes index 0; exactly one wait precedes each index n > 0, and it lasts
\* min(I * 1.5^n, 300) seconds, so no wait exceeds 300 seconds.
C1_FullIteration ==
    /\ \A k \in 1 .. Len(yielded) : yielded[k] = k - 1
    /\ Len(yielded) <= retries.attempts
    /\ pc = "iter_end" => Len(yielded) = retries.attempts /\ exc = Running
    /\ yielded = <<>> => waits = <<>>
    /\ yielded # <<>> => Len(waits) \in {Len(yielded) - 1, Len(yielded)}
    /\ pc \in {"iter_body", "iter_end"} /\ yielded # <<>>
            => Len(waits) = Len(yielded) - 1
    /\ \A k \in 1 .. Len(waits) :
        /\ IsCappedBackoff(waits[k], retries.interval, k)
        /\ waits[k].num <= Cap * waits[k].den

\* a full iteration of ThrottledRetries(9, 15): the first wait is 22.5 s and
\* the wait before index 8 is the cap
C1_Witness ==
    /\ pc = "iter_end"
    /\ retries.interval = PollInterval
    /\ Len(yielded) = 9
    /\ waits[1] = [num |-> 45, den |-> 2]
    /\ waits[7] = [num |-> 32805, den |-> 128]
    /\ waits[8] = [num |-> Cap, den |-> 1]

-----------------------------------------------------------------------------
(* Properties of run(), checked under Spec *)

ImportPcs == {"import_loop", "import_poll", "import_resolve"}
DlPcs == {"dl_output", "dl_image", "dl_file", "dl_suffix", "dl_mkdir",
          "dl_open", "dl_content", "dl_write"}
DlStep ==
    \/ DlNextOutput \/ DlFetchImage \/ DlNextFile \/ DlCheckSuffix
    \/ DlMkdir \/ DlOpen \/ DlFetchContent \/ DlWrite

\* C2: in every run() the phases occur in program order: the upload comes
\* before the first import poll, every import poll before the headstart wait,
\* the headstart wait before the first job poll, and the download (and any
\* write to the destination) only after a job poll that returned Succeeded,
\* which needs an earlier import poll that returned Succeeded with a resolved
\* image id. No phase is entered twice.
C2_ProgramOrder ==
    [][ /\ Upload => calls = NoCalls /\ polls = 0
        /\ PreWait => calls.uploads = 1 /\ calls.prewaits = 0 /\ polls = 0
        /\ (ImportPoll \/ ImportResolve) =>
                /\ calls.uploads = 1 /\ calls.prewaits = 1
                /\ calls.headstarts = 0 /\ calls.downloads = 0
        /\ HeadstartWait =>
                /\ calls.uploads = 1 /\ calls.headstarts = 0
                /\ polls >= 1 /\ details.status = "Succeeded"
                /\ image_uuid # None
        /\ JobPoll =>
                /\ calls.headstarts = 1 /\ calls.downloads = 0
                /\ image_uuid # None
        /\ (DlStep \/ fs' # fs) =>
                /\ calls.headstarts = 1 /\ calls.downloads = 1
                /\ details.status = "Succeeded" /\ image_uuid # None
                /\ pc \in DlPcs
        /\ calls'.uploads <= 1 /\ calls'.prewaits <= 1
        /\ calls'.headstarts <= 1 /\ calls'.downloads <= 1
      ]_vars

\* a run that went through all phases and wrote the mask
C2_Witness ==
    /\ pc = "idle"
    /\ exc = Returned
    /\ calls.uploads = 1
    /\ calls.headstarts = 1
    /\ calls.downloads = 1
    /\ calls.writes = 1
    /\ image_uuid = "image"
    /\ fs.files[ResultMha] = "mask-1"

LoopPcs == {"import_loop", "job_loop"}
PollStep == ImportPoll \/ JobPoll

\* a poll that did not end its loop: the fetch failed, the job page was empty,
\* the status was none of Succeeded, Failed, Cancelled, or the image of a
\* Succeeded session could not be resolved
Inconclusive ==
    \/ PollStep /\ details'.status \in {"IOError", "Empty", "Queued"}
    \/ ImportResolve /\ image_uuid' = None

\* C3: in both polling loops every poll consumes exactly one retry slot,
\* whatever its result: an inconclusive poll raises nothing and hands control
\* back to the retry iterator, which (while one of the 25 slots is left) makes
\* the back-off wait and then the next poll. The import loop ends successfully
\* at the first poll whose status is Succeeded and whose image resolves, with
\* that image's id; for the fetch results [I/O error, Queued, Succeeded with a
\* valid image] exactly 3 slots are consumed.
C3_OneSlotPerPoll ==
    /\ [](/\ pc \in {"import_poll", "job_poll"}
                => Len(yielded) = polls + 1 /\ Len(waits) = polls
          /\ pc \in LoopPcs \cup DlPcs \cup {"import_resolve", "headstart"}
                => Len(yielded) = polls
          /\ pc \in ImportPcs => image_uuid = None
          /\ pc = "headstart" =>
                /\ details.status = "Succeeded"
                /\ details.image_set # <<>>
                /\ image_uuid = "image"
          /\ pc = "headstart" /\ trail = <<"IOError", "Queued", "Succeeded">>
                => Len(yielded) = 3 /\ polls = 3 /\ Len(waits) = 2)
    /\ [][ /\ Inconclusive =>
                /\ exc' = Running
                /\ pc' \in LoopPcs
                /\ gen'.n = gen.n + 1 /\ ~gen'.slept
                /\ yielded' = yielded /\ waits' = waits
           /\ pc \in LoopPcs /\ 0 < gen.n /\ gen.n < PollAttempts /\ ~gen.slept
                => pc' = pc /\ Len(waits') = Len(waits) + 1 /\ polls' = polls
           /\ pc \in LoopPcs /\ gen.slept
                => pc' \in {"import_poll", "job_poll"} /\ yielded' = Append(yielded, gen.n)
           /\ ImportResolve /\ image_uuid' # None
                => pc' = "headstart" /\ gen' = gen /\ exc' = Running
         ]_vars

\* the import loop has just ended at its third poll, after an I/O error and a
\* Queued status
C3_Witness ==
    /\ pc = "headstart"
    /\ trail = <<"IOError", "Queued", "Succeeded">>
    /\ yielded = <<0, 1, 2>>
    /\ image_uuid = "image"

\* C4: a poll of either loop that reports Failed or Cancelled ends run() at
\* that poll with a RuntimeError (remote rejection): no further poll is made,
\* no back-off wait follows, the download is never invoked and nothing is
\* written to the destination.
C4_RejectionEndsRun ==
    /\ [](exc \in {NotStarted, AlgFailed} =>
            /\ pc = "idle"
            /\ details.status \in {"Failed", "Cancelled"}
            /\ Len(yielded) = polls /\ Len(waits) = polls - 1
            /\ calls.downloads = 0 /\ calls.imgFetches = 0
            /\ calls.fileFetches = 0 /\ calls.mkdirs = 0
            /\ calls.opens = 0 /\ calls.writes = 0)
    /\ [][ /\ PollStep /\ details'.status \in {"Failed", "Cancelled"} =>
                /\ exc' = (IF pc = "import_poll" THEN NotStarted ELSE AlgFailed)
                /\ exc'.type = "RuntimeError"
                /\ pc' = "idle"
                /\ gen' = gen /\ yielded' = yielded /\ waits' = waits
                /\ fs' = fs /\ calls' = calls
           /\ exc \in {NotStarted, AlgFailed} => RunCall
         ]_vars

\* the job was cancelled at the second job poll; the import was rejected at
\* its first poll
C4_Witness ==
    /\ exc = AlgFailed
    /\ details.status = "Cancelled"
    /\ polls = 2
    /\ calls.headstarts = 1

\* C5: in each polling loop a TimeoutError is raised if and only if all 25
\* attempts of that loop have been consumed without a poll that completed with
\* Succeeded or reported Failed or Cancelled; it is another outcome than the
\* RuntimeError of a remote rejection and is never raised while attempts remain.
C5_TimeoutIffExhausted ==
    /\ [](exc = Timeout =>
            /\ pc = "idle"
            /\ polls = PollAttempts /\ Len(yielded) = PollAttempts
            /\ details.status \notin {"Failed", "Cancelled"}
            /\ calls.headstarts = 0 => image_uuid = None
            /\ calls.headstarts = 1 => details.status # "Succeeded"
            /\ calls.downloads = 0
            /\ exc.type = "TimeoutError" /\ exc.type # NotStarted.type)
    /\ [][ /\ pc \in LoopPcs /\ polls = PollAttempts
                => exc' = Timeout /\ pc' = "idle"
           /\ exc' = Timeout /\ exc # Timeout
                => pc \in LoopPcs /\ polls = PollAttempts /\ gen.n = PollAttempts
           /\ pc \in LoopPcs /\ polls < PollAttempts => exc' = Running
         ]_vars

\* the job loop timed out after 25 polls
C5_Witness ==
    /\ exc = Timeout
    /\ calls.headstarts = 1
    /\ polls = 25
    /\ Len(waits) = 24

\* C6: an I/O error of a polling fetch (the session-detail fetch, the image
\* resolution after a Succeeded import status, the job-page fetch) never
\* reaches the caller of run(): all it does is consume a retry slot. A run
\* therefore ends normally, with a remote rejection, with a malformed success
\* or with a timeout, or else with the error of a step that is no polling
\* fetch (the upload, the download's fetches, the destination's suffix).
C6_PollErrorsAbsorbed ==
    /\ [](/\ exc.type = "IOError" => exc.msg \in {"lookup", "upload", "image", "file"}
          /\ pc = "idle" /\ runs > 0 =>
                exc \in {Returned, NotStarted, AlgFailed, NotImported, Timeout,
                         BadSuffix, IOErr("upload"), IOErr("image"), IOErr("file")})
    /\ [][ (\/ PollStep /\ details'.status = "IOError"
            \/ ImportResolve /\ image_uuid' = None) =>
                /\ exc' = Running
                /\ pc' \in LoopPcs
                /\ gen'.n = gen.n + 1
                /\ fs' = fs /\ calls' = calls /\ image_uuid' = image_uuid
         ]_vars

\* every fetch of the import loop failed: the run timed out, no I/O error
\* came out
C6_Witness ==
    /\ exc = Timeout
    /\ calls.headstarts = 0
    /\ details.status = "IOError"
    /\ polls = 25

\* C7: an import poll that reports Succeeded for a session with an empty image
\* list ends run() at that poll with the error "Uploaded image could not be
\* imported": no further poll is made even when retry slots remain, it is no
\* timeout, and the job loop is never entered.
C7_MalformedSuccess ==
    /\ [](exc = NotImported =>
            /\ pc = "idle"
            /\ details.status = "Succeeded" /\ details.image_set = <<>>
            /\ image_uuid = None
            /\ Len(yielded) = polls /\ Len(waits) = polls - 1
            /\ calls.headstarts = 0 /\ calls.downloads = 0)
    /\ [][ /\ ImportPoll /\ details'.status = "Succeeded" /\ details'.image_set = <<>> =>
                /\ exc' = [type |-> "RuntimeError",
                           msg |-> "Uploaded image could not be imported"]
                /\ exc' \notin {Timeout, NotStarted, AlgFailed}
                /\ pc' = "idle"
                /\ gen' = gen /\ waits' = waits
           /\ exc = NotImported => RunCall
         ]_vars

\* the second import poll found a Succeeded session without image: 23 slots
\* were left
C7_Witness ==
    /\ exc = NotImported
    /\ polls = 2
    /\ gen.n = 1

-----------------------------------------------------------------------------
(* Properties of _download_results(), checked under Spec *)

\* the files of all outputs with an image, in output order, then file order
RECURSIVE AllFiles(_)
AllFiles(outs) ==
    IF outs = <<>> THEN <<>>
    ELSE (IF Head(outs).image = None THEN <<>> ELSE ImageFiles(Head(outs).image))
            \o AllFiles(Tail(outs))

IsMask(f) == f.image_type = "MHD"
Masks(outs) == SelectSeq(AllFiles(outs), IsMask)

\* the outputs among the first k that carry an image
WithImage(k) == {i \in 1 .. k : i <= Len(outputs) /\ outputs[i].image # None}

\* C8: the download writes at most one file: it visits the outputs in order,
\* skips the outputs whose image is null and the files that are not MHD,
\* writes the content of the first MHD file (in output order, then file order)
\* to the destination and returns right after that write, so that no later
\* output or file is fetched or written.
C8_FirstMaskOnly ==
    /\ calls.writes <= 1 /\ calls.opens <= 1
    /\ calls.mkdirs <= 1 /\ calls.fileFetches <= 1
    /\ pc \in {"dl_output", "dl_image"}
            => calls.imgFetches = Cardinality(WithImage(oi - 1))
    /\ pc \in DlPcs \ {"dl_output", "dl_image"} =>
            /\ outputs[oi].image # None
            /\ calls.imgFetches = Cardinality(WithImage(oi))
            /\ \A i \in WithImage(oi - 1) :
                    \A j \in DOMAIN ImageFiles(outputs[i].image) :
                        ~IsMask(ImageFiles(outputs[i].image)[j])
            /\ \A j \in 1 .. fj - 1 : j <= Len(Files) => ~IsMask(Files[j])
    /\ pc \in {"dl_suffix", "dl_mkdir", "dl_open", "dl_content", "dl_write"}
            => Files[fj] = Masks(outputs)[1]
    /\ calls.writes = 1 =>
            /\ pc = "idle" /\ exc = Returned
            /\ fs.files[filename] = Masks(outputs)[1].file
            /\ calls.imgFetches = Cardinality(WithImage(oi))
            /\ calls.fileFetches = 1
    /\ pc = "idle" /\ exc = Returned /\ calls.downloads = 1 /\ Masks(outputs) # <<>>
            => calls.writes = 1

\* the outputs [null image, image with a JPEG and two MHD files]: the first
\* MHD file was written and the second was not
C8_Witness ==
    /\ calls.writes = 1
    /\ outputs = <<[image |-> None], [image |-> "img-M"]>>
    /\ fs.files[ResultMha] = "mask-1"
    /\ calls.imgFetches = 1

\* C9: a destination whose suffix is not .mha is rejected with a ValueError
\* before any I/O of the download: no fetch of image details or file content
\* and no file-system operation precedes the rejection.
C9_RejectedBeforeAnyIO ==
    exc = BadSuffix =>
        /\ calls.imgFetches = 0 /\ calls.fileFetches = 0
        /\ calls.mkdirs = 0 /\ calls.opens = 0 /\ calls.writes = 0

\* C10: whenever the download is invoked with a destination whose suffix is
\* not .mha it raises a ValueError, and no directory is created and no file
\* opened or written for such a destination.
C10_BadSuffixAlwaysRejected ==
    filename # NoPath /\ Suffix(filename) # Mha =>
        /\ pc = "idle" /\ calls.downloads = 1 => exc = BadSuffix
        /\ calls.mkdirs = 0 /\ calls.opens = 0 /\ calls.writes = 0

\* C11: a download whose outputs yield no MHD file (the list is empty, every
\* image is null, or no fetched listing holds an MHD file) creates no
\* directory, opens and writes no file, fetches no file content, leaves the
\* file system as it was and raises nothing of its own: unless a fetch of
\* image details raised, it returns normally and so does run(), whatever the
\* destination; a normal return of run() therefore does not mean that the
\* destination exists.
C11_NoMaskNoWrite ==
    /\ [](calls.downloads = 1 /\ Masks(outputs) = <<>> =>
            /\ pc \in {"dl_output", "dl_image", "dl_file", "idle"}
            /\ calls.mkdirs = 0 /\ calls.opens = 0 /\ calls.writes = 0
            /\ calls.fileFetches = 0
            /\ pc = "idle" /\ calls.dlErrors = 0 => exc = Returned
            /\ pc = "idle" /\ calls.dlErrors # 0 => exc = IOErr("image")
            /\ WithImage(Len(outputs)) = {} => calls.dlErrors = 0)
    /\ [][calls.downloads = 1 /\ Masks(outputs) = <<>> => fs' = fs]_vars

\* run() returned normally after a download of two outputs, one without image
\* and one whose listing holds a JPEG only: the destination does not exist
C11_Witness ==
    /\ pc = "idle" /\ exc = Returned /\ calls.downloads = 1
    /\ outputs = <<[image |-> None], [image |-> "img-J"]>>
    /\ calls.imgFetches = 1
    /\ fs = EmptyFs
    /\ fs.files[filename] = "absent"

\* C12: a construction whose lookup answers with zero records raises the
\* ValueError 'Invalid algorithm name' after exactly one lookup call: the
\* lookup is not made again, no other remote call, sleep or poll is made, no
\* driver with an algorithm id or a headstart exists, and nothing can be run.
C12_InvalidNameAfterOneLookup ==
    /\ [](algorithm_details.results = "NoResults" =>
            /\ exc = InvalidName /\ exc.msg = "Invalid algorithm name"
            /\ pc = "no_driver"
            /\ lookups = 1
            /\ driver.algorithm_uuid = None /\ driver.headstart = 0
            /\ runs = 0 /\ polls = 0 /\ calls = NoCalls
            /\ yielded = <<>> /\ waits = <<>>)
    /\ [](exc = InvalidName => algorithm_details.results = "NoResults")
    /\ [][pc # "no_driver"]_vars

\* the lookup answered with an empty result list and __init__ has raised
C12_Witness ==
    /\ algorithm_details.results = "NoResults"
    /\ exc = InvalidName
    /\ lookups = 1
    /\ pc = "no_driver"

\* C13: for every constructed driver the headstart is 30 when the average
\* duration of the algorithm is 0 or null and otherwise 75% of it truncated
\* to an integer (100 gives 75); it never changes after construction, and the
\* sleep between the import loop and the job loop of every run() lasts
\* exactly that many seconds.
C13_Headstart ==
    /\ [](pc \notin {"new", "no_driver"} =>
            LET a == algorithm_details.average_duration
                h == driver.headstart
            IN /\ a.null \/ a.num = 0 => h = 30
               /\ ~a.null /\ a.num # 0 => 4 * h <= 3 * a.num /\ 3 * a.num < 4 * (h + 1)
               /\ a = [null |-> FALSE, num |-> 100] => h = 75)
    /\ [](calls.headstarts <= 1)
    /\ [](calls.headstarts = 1 => calls.hsSlept = driver.headstart)
    /\ [](pc = "job_poll" => calls.headstarts = 1)
    /\ [][pc # "new" => driver' = driver /\ algorithm_details' = algorithm_details]_vars

\* the second run() of a driver whose algorithm has the average duration 0 has
\* made its headstart sleep, of 30 seconds
C13_Witness ==
    /\ runs = 2
    /\ algorithm_details.average_duration = [null |-> FALSE, num |-> 0]
    /\ calls.headstarts = 1
    /\ calls.hsSlept = 30
    /\ pc = "job_poll"

\* min(15 * 1.5^n, 300) as a fraction; past n = 10 the power is not computed
PollDelay(w, n) ==
    IF n > 10 \/ 15 * 3^n >= 300 * 2^n
    THEN w.num = 300 /\ w.den = 1
    ELSE w.num * 2^n = w.den * 15 * 3^n

\* C14: although the driver owns one ThrottledRetries object, each polling
\* loop iterates it afresh: however many of the 25 attempts the import loop
\* of a run() has consumed (1 to 25), the job loop of that run() starts at
\* index 0, makes its first poll without a back-off wait, waits
\* min(15 * 1.5^n, 300) seconds before its n-th poll and has all 25 attempts;
\* the same holds for the loops of every later run() on the same driver.
C14_FreshIterationPerPhase ==
    /\ [][pc = "headstart" =>
            /\ polls \in 1 .. 25 /\ Len(yielded) = polls
            /\ pc' = "job_loop" /\ polls' = 0
            /\ gen' = [n |-> 0, slept |-> FALSE]
            /\ yielded' = <<>> /\ waits' = <<>>]_vars
    /\ [][pc = "prewait" =>
            /\ pc' = "import_loop" /\ polls' = 0
            /\ gen' = [n |-> 0, slept |-> FALSE]
            /\ yielded' = <<>> /\ waits' = <<>>]_vars
    /\ [](pc \in {"job_loop", "job_poll", "import_loop", "import_poll"} =>
            /\ retries = [attempts |-> 25, interval |-> 15]
            /\ Len(yielded) <= 25
            /\ \A i \in DOMAIN yielded : yielded[i] = i - 1
            /\ \A n \in DOMAIN waits : PollDelay(waits[n], n)
            /\ pc \in {"job_poll", "import_poll"} =>
                    /\ polls = Len(yielded) - 1
                    /\ Len(waits) = Len(yielded) - 1)
    /\ [][(pc \in {"job_loop", "import_loop"} /\ Len(yielded) < 25) =>
            (pc' \in {"job_loop", "job_poll", "import_loop", "import_poll"})]_vars
    /\ [][exc' = Timeout /\ exc # Timeout => Len(yielded) = 25 /\ polls = 25]_vars

\* the job loop of the second run() is at its 25th poll, after 24 waits of
\* which the last lasted 300 seconds
C14_Witness ==
    /\ runs = 2
    /\ pc = "job_poll"
    /\ Len(yielded) = 25 /\ yielded[1] = 0
    /\ Len(waits) = 24 /\ waits[1] = [num |-> 45, den |-> 2]
    /\ waits[24] = [num |-> 300, den |-> 1]

\* C15: whenever run() has ended, also with an error, the destination is
\* either as it was before the driver touched it or holds the complete mask
\* content: in particular, after a failed fetch of the mask file's bytes a
\* destination that existed keeps its old content, and no empty or partial
\* file is left.
C15_DestinationNeverPartial ==
    pc = "idle" /\ runs > 0 =>
        /\ \A p \in Paths : fs.files[p] # "empty"
        /\ exc = IOErr("file") => fs.files[filename] \in {"absent", "old"}

\* C16: provided every remote call and every sleep returns, every run()
\* terminates: it makes at most 25 polls in its import loop and at most 25 in
\* its job loop, each loop is entered at most once, and it ends in one of: a
\* normal return, a remote rejection, a malformed success, a timeout, or the
\* error of a call that is no polling fetch.
C16_RunTerminates ==
    /\ [](polls <= 25 /\ Len(yielded) <= 25)
    /\ [](calls.prewaits <= 1 /\ calls.headstarts <= 1 /\ calls.downloads <= 1)
    /\ [](pc = "idle" /\ runs > 0 =>
            \/ exc.type = "Returned"
            \/ exc.type = "RuntimeError" /\ exc \in {NotStarted, AlgFailed}
            \/ exc.type = "RuntimeError" /\ exc = NotImported
            \/ exc.type = "TimeoutError"
            \/ exc.type = "IOError" /\ exc.msg \in {"upload", "image", "file"}
            \/ exc.type = "ValueError" /\ calls.downloads = 1)
    /\ (pc = "upload") ~> (pc = "idle" /\ exc.type # "Running")

\* the second run() ended with a timeout of its job loop, after 25 import
\* polls and 25 job polls
C16_Witness ==
    /\ runs = 2
    /\ pc = "idle"
    /\ exc.type = "TimeoutError"
    /\ calls.headstarts = 1
    /\ polls = 25

\* C17: an I/O error of a fetch of the download (the image details or the
\* mask content) is not treated as a transient polling failure: it is not
\* caught, it consumes no retry slot, no back-off wait and no further job poll
\* follow it, and run() ends with that I/O error, not with a timeout or a
\* rejection.
C17_DownloadErrorPropagates ==
    /\ [][calls'.dlErrors > calls.dlErrors =>
            /\ pc \in {"dl_image", "dl_content"}
            /\ pc' = "idle"
            /\ exc'.type = "IOError"
            /\ exc'.msg = (IF pc = "dl_image" THEN "image" ELSE "file")
            /\ gen' = gen /\ yielded' = yielded /\ waits' = waits
            /\ polls' = polls]_vars
    /\ [](calls.dlErrors > 0 =>
            /\ calls.dlErrors = 1
            /\ pc = "idle"
            /\ exc.type = "IOError" /\ exc.msg \in {"image", "file"}
            /\ exc.type \notin {"TimeoutError", "RuntimeError"}
            /\ details.status = "Succeeded"
            /\ polls = Len(yielded))
    /\ [](exc.type = "IOError" /\ exc.msg \in {"image", "file"} => calls.dlErrors = 1)

\* the third job poll returned Succeeded, the fetch of the mask content
\* raised, and run() ended with that error with 22 attempts left
C17_Witness ==
    /\ calls.dlErrors = 1
    /\ calls.fileFetches = 1
    /\ exc = [type |-> "IOError", msg |-> "file"]
    /\ pc = "idle"
    /\ polls = 3 /\ gen.n = 2

====
